---- MODULE Spec2Model ----
(***************************************************************************)
(* DefConfigPrinter of examples/print_detailed_defconfig.py: the loader    *)
(* of snapshot files into the assignment table (defined_config_list,       *)
(* defined_config_dict), the builder of the mirrored node tree and the     *)
(* printer of that tree.                                                   *)
(*                                                                         *)
(* Text is a sequence of tokens: a token is one character, or one of the   *)
(* fixed words the line patterns are made of ("CONFIG_", "is not set").    *)
(* A Python None is the string "None" for a reference and the empty        *)
(* sequence for an optional record (<<r>> when present).                   *)
(***************************************************************************)
EXTENDS Integers, Sequences, FiniteSets, TLC

VARIABLES
    kconf,                \* self.kconf: the external tree and its dependency values
    fs,                   \* the snapshot files the program can open: name -> lines
    fmt,                  \* self.print_comment, print_help, print_orig_config, print_location
    defined_config_list,  \* self.defined_config_list
    defined_config_dict,  \* self.defined_config_dict
    max_level,            \* self.max_level
    level_size,           \* self.level_size
    top_node,             \* self.top_node: "None" or the head of the finished tree
    tree,                 \* the Node objects reachable from self.top_node
    pc,                   \* where the program is: idle, load, read, build
    queue,                \* load_config_files: the files the second loop has still to load
    rd,                   \* load_config: the locals of the file being read
    frames,               \* make_node_tree: the stack of active calls
    bnodes,               \* make_node_tree: the Node objects created so far
    out,                  \* what the last print pass wrote to its file
    stdout,               \* what the last print pass wrote to sys.stdout
    walk,                 \* history: the siblings print_node_tree examined, in order
    hist                  \* history: the call in progress and the table before it

vars == <<kconf, fs, fmt, defined_config_list, defined_config_dict, max_level,
          level_size, top_node, tree, pc, queue, rd, frames, bnodes, out, stdout,
          walk, hist>>

None == "None"

(***************************************************************************)
(* Bounds of the model.                                                    *)
(***************************************************************************)
MaxLines == 3        \* lines of a snapshot file, where the claim is about its lines
MaxFoldLines == 2    \* lines of a snapshot file, where the claim is about several files
MaxFiles == 1        \* files of one call of preload_config_files / load_config_files
MaxCalls == 2        \* calls of the printer's methods in a run, print() not counted
MaxUnsat == 1        \* menu nodes whose dependency is not "y"

(***************************************************************************)
(* Text.                                                                   *)
(***************************************************************************)
Whitespace == {" ", "\t", "\n"}

\* str.rstrip(): the text without its trailing whitespace.
RECURSIVE rstrip(_)
rstrip(s) ==
    IF s = <<>> THEN <<>>
    ELSE IF s[Len(s)] \in Whitespace THEN rstrip(SubSeq(s, 1, Len(s) - 1))
    ELSE s

\* str.lstrip(chars): the text without its leading characters of chars.
RECURSIVE lstrip(_, _)
lstrip(s, chars) ==
    IF s = <<>> THEN <<>>
    ELSE IF s[1] \in chars THEN lstrip(Tail(s), chars)
    ELSE s

\* "\n".join(lines)
RECURSIVE join(_)
join(lines) ==
    IF lines = <<>> THEN <<>>
    ELSE IF Len(lines) = 1 THEN lines[1]
    ELSE lines[1] \o <<"\n">> \o join(Tail(lines))

\* The least index >= from at which s holds the token t, 0 when there is none.
RECURSIVE find(_, _, _)
find(s, t, from) ==
    IF from > Len(s) THEN 0
    ELSE IF s[from] = t THEN from
    ELSE find(s, t, from + 1)

\* kconf._set_match: CONFIG_([^=]+)=(.*) from the start of the line.
\* <<>> when the line does not match, else <<name, val>>.
set_match(line) ==
    LET eq == find(line, "=", 2) IN
    IF Len(line) >= 3 /\ line[1] = "CONFIG_" /\ eq >= 3
    THEN <<SubSeq(line, 2, eq - 1), SubSeq(line, eq + 1, Len(line))>>
    ELSE <<>>

\* kconf._unset_match: "# CONFIG_([^ ]+) is not set" from the start of the line.
\* <<>> when the line does not match, else <<name>>.
unset_match(line) ==
    LET sp == find(line, " ", 4) IN
    IF /\ Len(line) >= 6
       /\ line[1] = "#" /\ line[2] = " " /\ line[3] = "CONFIG_"
       /\ sp >= 5 /\ sp < Len(line) /\ line[sp + 1] = "is not set"
    THEN <<SubSeq(line, 4, sp - 1)>>
    ELSE <<>>

\* self.comment_match: ^#
comment_match(line) == line # <<>> /\ line[1] = "#"

(***************************************************************************)
(* The external tree (kconfiglib's MenuNode objects).  Two trees:          *)
(*   small:  top - s                                                       *)
(*   full:   top - M  - a, c         M a menu, a and c symbols             *)
(*               - ch - d - f        ch a choice, d, e its branches,       *)
(*                    - e            f a symbol nested in d                *)
(*               - mc - g            mc a menuconfig symbol, g a symbol    *)
(* Symbol X is declared at a, d, mc and s; symbol Y at c, e, f and g.      *)
(***************************************************************************)
MENU == "MENU"
Symbol == "Symbol"
Choice == "Choice"

\* item.name of an item that has no name (a menu, an unnamed choice)
NoName == <<>>
NameX == <<"X">>
NameY == <<"Y">>

MenuNode(item, name, is_menuconfig, prompt, help, list, next) ==
    [item |-> item, name |-> name, is_menuconfig |-> is_menuconfig,
     prompt |-> prompt, help |-> help, list |-> list, next |-> next]

SmallTree ==
    [top |-> MenuNode(MENU,   NoName,  TRUE,  "Main", None, "s",  None),
     s   |-> MenuNode(Symbol, NameX, FALSE, "s",    "hs", None, None)]

FullTree ==
    [top |-> MenuNode(MENU,   NoName,  TRUE,  "Main", None, "M",  None),
     M   |-> MenuNode(MENU,   NoName,  TRUE,  "M",    None, "a",  "ch"),
     a   |-> MenuNode(Symbol, NameX, FALSE, "a",    "ha", None, "c"),
     c   |-> MenuNode(Symbol, NameY, FALSE, "c",    None, None, None),
     ch  |-> MenuNode(Choice, NoName,  TRUE,  "ch",   None, "d",  "mc"),
     mc  |-> MenuNode(Symbol, NameX, TRUE,  "mc",   None, "g",  None),
     g   |-> MenuNode(Symbol, NameY, FALSE, "g",    None, None, None),
     d   |-> MenuNode(Symbol, NameX, FALSE, "d",    None, "f",  "e"),
     f   |-> MenuNode(Symbol, NameY, FALSE, None,   None, None, None),
     e   |-> MenuNode(Symbol, NameY, FALSE, "e",    None, None, None)]

\* kconf.top_node
KconfTop == "top"

\* The values an expression evaluates to: n, m, y.
TriVals == {0, 1, 2}

\* The dependency values of a tree: the top node depends on "y"; at most
\* MaxUnsat of the other nodes depend on something that is not "y".
DepChoices(t) ==
    {dv \in [DOMAIN t -> TriVals] :
        /\ dv[KconfTop] = 2
        /\ Cardinality({n \in DOMAIN t : dv[n] # 2}) <= MaxUnsat}

\* expr_value(menu_node.dep)
expr_value_dep(menu_node) == kconf.dep[menu_node]

\* kconf.syms.get(name), then "sym and sym.nodes": the symbol when the tree
\* declares it at some node (<<name>>), else nothing (<<>>).
get_sym(name) ==
    IF \E n \in DOMAIN kconf.tree :
          kconf.tree[n].item = Symbol /\ kconf.tree[n].name = name
    THEN <<name>> ELSE <<>>

\* sym.config_string of a symbol no snapshot gave a value: "# CONFIG_<name> is not set\n"
config_string(name) == <<"#", " ", "CONFIG_">> \o name \o <<" ", "is not set", "\n">>

(***************************************************************************)
(* The snapshot files.                                                     *)
(***************************************************************************)
SetLine(name, val) == <<"CONFIG_">> \o name \o <<"=">> \o val
UnsetLine(name) == <<"#", " ", "CONFIG_">> \o name \o <<" ", "is not set">>

\* All sequences over S of length at most n.
RECURSIVE SeqsUpTo(_, _)
SeqsUpTo(S, n) ==
    IF n = 0 THEN {<<>>}
    ELSE LET shorter == SeqsUpTo(S, n - 1) IN
         shorter \cup {Append(q, x) : q \in {r \in shorter : Len(r) = n - 1}, x \in S}

(***************************************************************************)
(* load_config: one snapshot file into config_list, then into the table.   *)
(***************************************************************************)
\* config_info.  raw is history, not a key of the dictionary: the line as the
\* file holds it, before line.rstrip().
ConfigInfo(name, line, comment_lines, raw) ==
    [name |-> name, line |-> line, symbol |-> get_sym(name),
     comment |-> join(comment_lines), raw |-> raw]

\* Mutant of scan_line: a line that is no assignment and no comment leaves
\* the pending comment lines as they are.
scan_line_keeps(config_list, comment_lines, raw) ==
    LET line == rstrip(raw)
        sm   == set_match(line)
        um   == unset_match(line)
    IN  IF sm # <<>>
        THEN [config_list   |-> Append(config_list, ConfigInfo(sm[1], line, comment_lines, raw)),
              comment_lines |-> <<>>]
        ELSE IF um # <<>>
        THEN [config_list   |-> Append(config_list, ConfigInfo(um[1], line, comment_lines, raw)),
              comment_lines |-> <<>>]
        ELSE IF comment_match(line)
        THEN [config_list   |-> config_list,
              comment_lines |-> Append(comment_lines, line)]
        ELSE [config_list   |-> config_list,
              comment_lines |-> comment_lines]

\* One iteration of "for line_num, line in enumerate(f, 1)".
scan_line(config_list, comment_lines, raw) ==
    LET line == rstrip(raw)
        sm   == set_match(line)
        um   == unset_match(line)
    IN  IF sm # <<>>
        THEN [config_list   |-> Append(config_list, ConfigInfo(sm[1], line, comment_lines, raw)),
              comment_lines |-> <<>>]
        ELSE IF um # <<>>
        THEN [config_list   |-> Append(config_list, ConfigInfo(um[1], line, comment_lines, raw)),
              comment_lines |-> <<>>]
        ELSE IF comment_match(line)
        THEN [config_list   |-> config_list,
              comment_lines |-> Append(comment_lines, line)]
        ELSE [config_list   |-> config_list,
              comment_lines |-> <<>>]

\* Mutant of dict_set: an entry the table holds is kept (setdefault).
dict_set_keeps(dict, name, config_info) ==
    [n \in DOMAIN dict \cup {name} |-> IF n \in DOMAIN dict THEN dict[n] ELSE config_info]

\* self.defined_config_dict[name] = config_info
dict_set(dict, name, config_info) ==
    [n \in DOMAIN dict \cup {name} |-> IF n = name THEN config_info ELSE dict[n]]

\* for config_info in config_list: self.defined_config_dict[name] = config_info
RECURSIVE dict_update(_, _)
dict_update(dict, config_list) ==
    IF config_list = <<>> THEN dict
    ELSE dict_update(dict_set(dict, Head(config_list).name, Head(config_list)),
                     Tail(config_list))

EmptyDict == [n \in {} |-> <<>>]

NoRead == [file |-> None, pos |-> 0, config_list |-> <<>>, comment_lines |-> <<>>]

NoCall == [op |-> None, files |-> <<>>, replace |-> FALSE, status |-> None]

\* The history of a call that starts now.
CallStarts(op, files, replace, status) ==
    [hist EXCEPT !.calls = @ + 1,
                 !.prev = hist.call,
                 !.call = [op |-> op, files |-> files, replace |-> replace,
                           status |-> status],
                 !.dict0 = defined_config_dict,
                 !.list0 = defined_config_list,
                 !.open_dict = defined_config_dict,
                 !.open_list = defined_config_list,
                 !.partial = 0]

CallEnds(status) == [hist EXCEPT !.call.status = status]

\* What a print pass wrote is kept until the next call.
ClearOutput == out' = <<>> /\ stdout' = <<>> /\ walk' = <<>>

\* preload_config_files: the snapshot files go to kconf only.
PreloadConfigFiles(files) ==
    /\ pc = "idle"
    /\ hist.calls < MaxCalls
    /\ hist' = CallStarts("preload", files, TRUE, "done")
    /\ ClearOutput
    /\ UNCHANGED <<kconf, fs, fmt, defined_config_list, defined_config_dict, max_level,
                   level_size, top_node, tree, pc, queue, rd, frames, bnodes>>

\* load_config_files, first loop: kconf.load_config(defconfig_file, replace, verbose)
\* of every file.  The table is not touched, whatever replace is.
LoadConfigFiles(files, replace) ==
    /\ pc = "idle"
    /\ hist.calls < MaxCalls
    /\ pc' = "load"
    /\ queue' = files
    /\ hist' = CallStarts("load", files, replace, "running")
    /\ ClearOutput
    /\ UNCHANGED <<kconf, fs, fmt, defined_config_list, defined_config_dict, max_level,
                   level_size, top_node, tree, rd, frames, bnodes>>

\* load_config_files, first loop: kconf.load_config raises (the file cannot be
\* opened or read); the call ends there.
LoadConfigFilesKconfError(files, replace) ==
    /\ pc = "idle"
    /\ hist.calls < MaxCalls
    /\ files # <<>>
    /\ hist' = CallStarts("load", files, replace, "failed")
    /\ ClearOutput
    /\ UNCHANGED <<kconf, fs, fmt, defined_config_list, defined_config_dict, max_level,
                   level_size, top_node, tree, pc, queue, rd, frames, bnodes>>

\* load_config_files, second loop: self.load_config(defconfig_file) opens the file.
OpenConfig ==
    /\ pc = "load"
    /\ queue # <<>>
    /\ pc' = "read"
    /\ rd' = [file |-> Head(queue), pos |-> 1, config_list |-> <<>>,
              comment_lines |-> <<>>]
    /\ hist' = [hist EXCEPT !.open_dict = defined_config_dict,
                            !.open_list = defined_config_list]
    /\ UNCHANGED <<kconf, fs, fmt, defined_config_list, defined_config_dict, max_level,
                   level_size, top_node, tree, queue, frames, bnodes, out, stdout, walk>>

\* Mutant of ReadLine: a record goes into the table as soon as its line is read.
ReadLineCommits ==
    /\ pc = "read"
    /\ rd.pos <= Len(fs[rd.file])
    /\ LET r   == scan_line(rd.config_list, rd.comment_lines, fs[rd.file][rd.pos])
           new == SubSeq(r.config_list, Len(rd.config_list) + 1, Len(r.config_list))
       IN  /\ rd' = [rd EXCEPT !.pos = @ + 1,
                               !.config_list = r.config_list,
                               !.comment_lines = r.comment_lines]
           /\ defined_config_list' = defined_config_list \o new
           /\ defined_config_dict' = dict_update(defined_config_dict, new)
    /\ UNCHANGED <<kconf, fs, fmt, max_level, level_size, top_node, tree, pc, queue,
                   frames, bnodes, out, stdout, walk, hist>>

\* load_config: one line of the file is read and classified.
ReadLine ==
    /\ pc = "read"
    /\ rd.pos <= Len(fs[rd.file])
    /\ LET r == scan_line(rd.config_list, rd.comment_lines, fs[rd.file][rd.pos])
       IN  rd' = [rd EXCEPT !.pos = @ + 1,
                            !.config_list = r.config_list,
                            !.comment_lines = r.comment_lines]
    /\ UNCHANGED <<kconf, fs, fmt, defined_config_list, defined_config_dict, max_level,
                   level_size, top_node, tree, pc, queue, frames, bnodes, out, stdout,
                   walk, hist>>

\* load_config: reading the file raises inside the with block; the exception
\* leaves load_config and load_config_files.
ReadError ==
    /\ pc = "read"
    /\ pc' = "idle"
    /\ rd' = NoRead
    /\ queue' = <<>>
    /\ hist' = [CallEnds("failed") EXCEPT !.partial = Len(rd.config_list)]
    /\ UNCHANGED <<kconf, fs, fmt, defined_config_list, defined_config_dict, max_level,
                   level_size, top_node, tree, frames, bnodes, out, stdout, walk>>

\* load_config, after the with block: config_list goes into the table.
CommitConfig ==
    /\ pc = "read"
    /\ rd.pos > Len(fs[rd.file])
    /\ defined_config_list' = defined_config_list \o rd.config_list
    /\ defined_config_dict' = dict_update(defined_config_dict, rd.config_list)
    /\ pc' = "load"
    /\ rd' = NoRead
    /\ queue' = Tail(queue)
    /\ UNCHANGED <<kconf, fs, fmt, max_level, level_size, top_node, tree, frames,
                   bnodes, out, stdout, walk, hist>>

(***************************************************************************)
(* make_node_tree: the mirrored tree.  A Node is named by its menu node.   *)
(***************************************************************************)
\* DefConfigPrinter.Node.__init__
Node(menu_node, parent, level) ==
    LET m == kconf.tree[menu_node] IN
    [menu_node |-> menu_node,
     parent    |-> parent,
     level     |-> level,
     next      |-> None,
     list      |-> None,
     defined   |-> FALSE,
     config    |-> <<>>,
     is_symbol |-> m.item = Symbol,
     is_choice |-> m.item = Choice,
     is_menu   |-> (m.item = MENU \/ m.is_menuconfig = TRUE),
     prompt    |-> m.prompt,
     help      |-> m.help]

\* Mutant of dep_satisfied: "n" counts as satisfied.
dep_satisfied_any(value) == value >= 0

\* expr_value(curr_node.menu_node.dep) > 0
dep_satisfied(value) == value > 0

\* parent = parent_node
\* while parent and parent.defined is False: parent.defined = True; parent = parent.parent
RECURSIVE walk_parents(_, _)
walk_parents(ns, parent) ==
    IF parent # None /\ ns[parent].defined = FALSE
    THEN walk_parents([ns EXCEPT ![parent].defined = TRUE], ns[parent].parent)
    ELSE ns

\* Mutant of propagate_defined: only the parent itself is marked.
propagate_parent_only(ns, parent_node) ==
    IF parent_node # None
    THEN [ns EXCEPT ![parent_node].defined = TRUE]
    ELSE ns

propagate_defined(ns, parent_node) == walk_parents(ns, parent_node)

\* The body of the while loop up to the recursion: the node is created and,
\* when its dependency holds and the table has its name, matched.
visit_node(ns, menu_node, parent_node, level) ==
    LET m    == kconf.tree[menu_node]
        ns1  == [n \in DOMAIN ns \cup {menu_node} |->
                    IF n = menu_node THEN Node(menu_node, parent_node, level) ELSE ns[n]]
    IN  IF /\ dep_satisfied(expr_value_dep(menu_node))
           /\ m.item \in {Symbol, Choice}
           /\ m.name \in DOMAIN defined_config_dict
        THEN propagate_defined(
                 [ns1 EXCEPT ![menu_node].defined = TRUE,
                             ![menu_node].config = <<defined_config_dict[m.name]>>],
                 parent_node)
        ELSE ns1

\* if prev_node: prev_node.next = curr_node
link_node(ns, frame, curr_node) ==
    IF frame.prev_node # None
    THEN [ns EXCEPT ![frame.prev_node].next = curr_node]
    ELSE ns

\* else: first_node = curr_node;  prev_node = curr_node;  menu_node = menu_node.next
advance(frame, curr_node) ==
    [frame EXCEPT !.first_node = IF frame.prev_node # None THEN @ ELSE curr_node,
                  !.prev_node  = curr_node,
                  !.curr_node  = None,
                  !.menu_node  = kconf.tree[frame.menu_node].next]

Frame(menu_node, parent_node, level) ==
    [menu_node |-> menu_node, parent_node |-> parent_node, level |-> level,
     first_node |-> None, prev_node |-> None, curr_node |-> None]

EmptyNodes == [n \in {} |-> <<>>]

\* load_config_files after its loops: self.max_level = 0 and the call
\* make_node_tree(self.kconf.top_node, None, 0).
StartBuild ==
    /\ pc = "load"
    /\ queue = <<>>
    /\ pc' = "build"
    /\ max_level' = 0
    /\ frames' = <<Frame(KconfTop, None, 0)>>
    /\ bnodes' = EmptyNodes
    /\ UNCHANGED <<kconf, fs, fmt, defined_config_list, defined_config_dict, level_size,
                   top_node, tree, queue, rd, out, stdout, walk, hist>>

\* make_node_tree: one iteration of the while loop, as far as the recursive
\* call when the menu node has children, to its end when it has none.
BuildStep ==
    /\ pc = "build"
    /\ frames # <<>>
    /\ LET top   == Len(frames)
           frame == frames[top]
           curr  == frame.menu_node
       IN  /\ curr # None
           /\ LET ns == visit_node(bnodes, curr, frame.parent_node, frame.level) IN
              IF kconf.tree[curr].list # None
              THEN /\ bnodes' = ns
                   /\ frames' = Append([frames EXCEPT ![top].curr_node = curr],
                                       Frame(kconf.tree[curr].list, curr, frame.level + 1))
              ELSE /\ bnodes' = link_node(ns, frame, curr)
                   /\ frames' = [frames EXCEPT ![top] = advance(frame, curr)]
    /\ UNCHANGED <<kconf, fs, fmt, defined_config_list, defined_config_dict, max_level,
                   level_size, top_node, tree, pc, queue, rd, out, stdout, walk, hist>>

\* make_node_tree returns first_node: to the caller's iteration, which sets
\* curr_node.list and goes on to the next sibling, or to load_config_files,
\* which sets top_node and level_size and calls generate_print_format().
BuildReturn ==
    /\ pc = "build"
    /\ frames # <<>>
    /\ LET top   == Len(frames)
           frame == frames[top]
           level == IF max_level < frame.level THEN frame.level ELSE max_level
       IN  /\ frame.menu_node = None
           /\ max_level' = level
           /\ IF top > 1
              THEN LET caller == frames[top - 1]
                       curr   == caller.curr_node
                   IN  /\ bnodes' = link_node([bnodes EXCEPT ![curr].list = frame.first_node],
                                              caller, curr)
                       /\ frames' = [SubSeq(frames, 1, top - 1) EXCEPT
                                        ![top - 1] = advance(caller, curr)]
                       /\ UNCHANGED <<pc, top_node, tree, level_size, fmt, hist>>
              ELSE /\ top_node' = frame.first_node
                   /\ tree' = bnodes
                   /\ level_size' = level + 1
                   /\ fmt' = [fmt EXCEPT !.levels = level + 1]
                   /\ pc' = "idle"
                   /\ frames' = <<>>
                   /\ bnodes' = EmptyNodes
                   /\ hist' = CallEnds("done")
    /\ UNCHANGED <<kconf, fs, defined_config_list, defined_config_dict, queue, rd, out,
                   stdout, walk>>

(***************************************************************************)
(* generate_print_format and print.  A printed line is an event: its kind  *)
(* (the template it was formatted with), the node, the level whose         *)
(* template was used and the text substituted into it.                     *)
(***************************************************************************)
FormatKeys == {"print_first_level", "print_comment", "print_help",
               "print_orig_config", "print_location"}

\* self.print_format_params.update(params), and one template per level of
\* range(self.level_size).
generate_print_format(params) ==
    [k \in FormatKeys \cup {"levels"} |->
        IF k = "levels" THEN level_size
        ELSE IF k \in DOMAIN params THEN params[k]
        ELSE fmt[k]]

Event(kind, node, text) ==
    [kind |-> kind, node |-> node, level |-> tree[node].level, text |-> text]

Printed(o, so, w) == [out |-> o, stdout |-> so, walk |-> w]

Then(p, q) == Printed(p.out \o q.out, p.stdout \o q.stdout, p.walk \o q.walk)

Nothing == Printed(<<>>, <<>>, <<>>)

ToFile(events) == Printed(events, <<>>, <<>>)

\* print_node_prompt
print_node_prompt(node) == ToFile(<<Event("prompt", node, <<tree[node].prompt>>)>>)

\* print_node_help
print_node_help(node) == ToFile(<<Event("help", node, <<tree[node].help>>)>>)

\* print_node_location
print_node_location(node) == ToFile(<<Event("location", node, <<>>)>>)

\* print_node_comment: print(comment), without file=
print_node_comment(node) ==
    IF tree[node].config # <<>>
    THEN Printed(<<>>, <<tree[node].config[1].comment>>, <<>>)
    ELSE Nothing

\* Mutant of print_node_config: a symbol's line is always the synthesized one.
print_node_config_synth(node) ==
    IF tree[node].is_symbol
    THEN LET sym == kconf.tree[tree[node].menu_node].name
         IN  ToFile(<<Event("orig_config", node,
                            lstrip(rstrip(config_string(sym)), {"#", " "}))>>)
    ELSE IF tree[node].config # <<>>
    THEN ToFile(<<Event("config", node, tree[node].config[1].line)>>)
    ELSE Nothing

\* print_node_config
print_node_config(node) ==
    IF tree[node].config # <<>>
    THEN ToFile(<<Event("config", node, tree[node].config[1].line)>>)
    ELSE IF tree[node].is_symbol
    THEN LET sym == kconf.tree[tree[node].menu_node].name
         IN  ToFile(<<Event("orig_config", node,
                            lstrip(rstrip(config_string(sym)), {"#", " "}))>>)
    ELSE Nothing

\* The part print_menu_node and print_config_node share: prompt, help,
\* location, comment, config and the empty line.
print_node_head(node, force_print) ==
    LET n      == tree[node]
        prompt == n.prompt # None
        config == (n.config # <<>>) \/ fmt.print_orig_config \/ force_print
    IN  Then(IF prompt
             THEN Then(print_node_prompt(node),
                  Then(IF fmt.print_help /\ n.help # None
                       THEN print_node_help(node) ELSE Nothing,
                       IF fmt.print_location
                       THEN print_node_location(node) ELSE Nothing))
             ELSE Nothing,
        Then(IF fmt.print_comment THEN print_node_comment(node) ELSE Nothing,
        Then(IF config THEN print_node_config(node) ELSE Nothing,
             IF prompt \/ config
             THEN ToFile(<<Event("newline", node, <<>>)>>) ELSE Nothing)))

\* Mutant of shown: every sibling is printed.
shown_always(node, force_print) == TRUE

\* print_node_tree: "if node.defined is True or force_print is True"
shown(node, force_print) == tree[node].defined = TRUE \/ force_print = TRUE

\* Mutant of print_menu_end: the banner closes a node only when a child of
\* the node is defined.
print_menu_end_if_defined_child(node) ==
    IF tree[node].prompt # None
       /\ \E c \in DOMAIN tree : tree[c].parent = node /\ tree[c].defined
    THEN ToFile(<<Event("menu_end", node, <<tree[node].prompt>>)>>)
    ELSE Nothing

\* print_menu_node, its last statement: "if node.prompt:" the end banner of
\* the node's level.  print_config_node has no such statement.
print_menu_end(node) ==
    IF tree[node].prompt # None
    THEN ToFile(<<Event("menu_end", node, <<tree[node].prompt>>)>>)
    ELSE Nothing

\* Mutant of config_children_force: the children get the value the node got.
config_children_force_same(node, force_print) == force_print

\* Mutant of menu_children_force: the children get the value the node got.
menu_children_force_same(node, force_print) == force_print

\* print_menu_node: self.print_node_tree(node.list, node.is_choice, file)
menu_children_force(node, force_print) == tree[node].is_choice

\* print_config_node: self.print_node_tree(node.list, False, file)
config_children_force(node, force_print) == FALSE

RECURSIVE print_node_tree(_, _)
RECURSIVE print_menu_node(_, _)
RECURSIVE print_config_node(_, _)

print_node_tree(node, force_print) ==
    IF node = None THEN Nothing
    ELSE Then(Printed(<<>>, <<>>, <<[node |-> node, force_print |-> force_print]>>),
         Then(IF shown(node, force_print)
              THEN IF tree[node].is_menu
                   THEN print_menu_node(node, force_print)
                   ELSE print_config_node(node, force_print)
              ELSE Nothing,
              print_node_tree(tree[node].next, force_print)))

print_menu_node(node, force_print) ==
    Then(print_node_head(node, force_print),
    Then(IF tree[node].list # None
         THEN print_node_tree(tree[node].list, menu_children_force(node, force_print))
         ELSE Nothing,
         print_menu_end(node)))

print_config_node(node, force_print) ==
    Then(print_node_head(node, force_print),
         IF tree[node].list # None
         THEN print_node_tree(tree[node].list, config_children_force(node, force_print))
         ELSE Nothing)

\* generate_print_format(params) called by the user of the class.
GeneratePrintFormat(params) ==
    /\ pc = "idle"
    /\ hist.calls < MaxCalls
    /\ fmt' = generate_print_format(params)
    /\ hist' = CallStarts("format", <<>>, FALSE, "done")
    /\ ClearOutput
    /\ UNCHANGED <<kconf, fs, defined_config_list, defined_config_dict, max_level,
                   level_size, top_node, tree, pc, queue, rd, frames, bnodes>>

\* print(): with no params the templates are generated again, then the tree
\* is printed from the top node's children, or from the top node itself when
\* print_first_level is not 1.  Without a tree (top_node is None) it raises.
PrintTree ==
    /\ pc = "idle"
    /\ top_node # None
    /\ fmt' = generate_print_format(<<>>)
    /\ LET p == IF fmt.print_first_level = 1
                THEN print_node_tree(tree[top_node].list, FALSE)
                ELSE print_node_tree(top_node, FALSE)
       IN  /\ out' = p.out
           /\ stdout' = p.stdout
           /\ walk' = p.walk
    /\ UNCHANGED <<kconf, fs, defined_config_list, defined_config_dict, max_level,
                   level_size, top_node, tree, pc, queue, rd, frames, bnodes, hist>>

(***************************************************************************)
(* The program: the state after DefConfigPrinter(kconfig_file), and the    *)
(* calls a user of the class makes.                                        *)
(***************************************************************************)
\* The lines of the files, by what the run is to exercise.
ParseLines ==
    {SetLine(NameX, <<"y">>) \o <<" ">>,
     UnsetLine(NameX),
     <<"#", "c">>,
     <<"#", "d", " ">>,
     <<>>}

FoldLines ==
    {SetLine(NameX, <<"y">>),
     SetLine(NameX, <<"n">>),
     SetLine(NameY, <<"y">>)}

TreeLines ==
    {SetLine(NameX, <<"y">>),
     UnsetLine(NameY)}

Kconfs(t) == {[tree |-> t, dep |-> dv] : dv \in DepChoices(t)}

\* The params of generate_print_format the runs use.
ParamChoices ==
    {[print_orig_config |-> TRUE],
     [print_comment |-> TRUE, print_help |-> TRUE, print_orig_config |-> TRUE,
      print_location |-> TRUE],
     [print_first_level |-> 0]}

\* The lists of files of one call.
FileLists == SeqsUpTo(DOMAIN fs, MaxFiles)

InitProgram ==
    /\ fmt = [print_first_level |-> 1, print_comment |-> FALSE, print_help |-> FALSE,
              print_orig_config |-> FALSE, print_location |-> FALSE, levels |-> 0]
    /\ defined_config_list = <<>>
    /\ defined_config_dict = EmptyDict
    /\ max_level = 0
    /\ level_size = 0
    /\ top_node = None
    /\ tree = EmptyNodes
    /\ pc = "idle"
    /\ queue = <<>>
    /\ rd = NoRead
    /\ frames = <<>>
    /\ bnodes = EmptyNodes
    /\ out = <<>>
    /\ stdout = <<>>
    /\ walk = <<>>
    /\ hist = [calls |-> 0, prev |-> NoCall, call |-> NoCall,
               dict0 |-> EmptyDict, list0 |-> <<>>,
               open_dict |-> EmptyDict, open_list |-> <<>>, partial |-> 0]

\* One file, any lines: the loader.
InitParse ==
    /\ kconf = [tree |-> SmallTree, dep |-> [n \in DOMAIN SmallTree |-> 2]]
    /\ fs \in [{"a"} -> SeqsUpTo(ParseLines, MaxLines)]
    /\ InitProgram

\* Two files of assignments: the table.
InitFold ==
    /\ kconf = [tree |-> SmallTree, dep |-> [n \in DOMAIN SmallTree |-> 2]]
    /\ fs \in [{"a", "b"} -> SeqsUpTo(FoldLines, MaxFoldLines)]
    /\ InitProgram

\* The full tree under any dependency values: the builder and the printer.
InitTree ==
    /\ kconf \in Kconfs(FullTree)
    /\ fs \in [{"a"} -> SeqsUpTo(TreeLines, MaxFoldLines)]
    /\ InitProgram

Init == InitParse \/ InitFold \/ InitTree

Next ==
    \/ \E files \in FileLists : PreloadConfigFiles(files)
    \/ \E files \in FileLists, replace \in BOOLEAN : LoadConfigFiles(files, replace)
    \/ \E files \in FileLists, replace \in BOOLEAN : LoadConfigFilesKconfError(files, replace)
    \/ OpenConfig
    \/ ReadLine
    \/ ReadError
    \/ CommitConfig
    \/ StartBuild
    \/ BuildStep
    \/ BuildReturn
    \/ \E params \in ParamChoices : GeneratePrintFormat(params)
    \/ PrintTree

Spec == Init /\ [][Next]_vars
SpecParse == InitParse /\ [][Next]_vars
SpecFold == InitFold /\ [][Next]_vars
SpecTree == InitTree /\ [][Next]_vars

(***************************************************************************)
(* What the claims speak of.                                               *)
(***************************************************************************)
\* The records of a file, scanned from its first line to its last.
RECURSIVE ScanFrom(_, _, _, _)
ScanFrom(lines, i, config_list, comment_lines) ==
    IF i > Len(lines) THEN config_list
    ELSE LET r == scan_line(config_list, comment_lines, lines[i])
         IN  ScanFrom(lines, i + 1, r.config_list, r.comment_lines)

RecordsOfFile(file) == ScanFrom(fs[file], 1, <<>>, <<>>)

\* The records of the files of a call, in the order of the call.
RECURSIVE RecordsOf(_)
RecordsOf(files) ==
    IF files = <<>> THEN <<>>
    ELSE RecordsOfFile(Head(files)) \o RecordsOf(Tail(files))

\* The names the files of a call assign.
NamesOf(files) == {RecordsOf(files)[i].name : i \in DOMAIN RecordsOf(files)}

\* The last record the files of a call hold for a name they assign.
LastRecordOf(files, name) ==
    LET rs == RecordsOf(files)
        i  == CHOOSE k \in DOMAIN rs :
                 /\ rs[k].name = name
                 /\ \A j \in DOMAIN rs : rs[j].name = name => j <= k
    IN  rs[i]

\* The call of load_config_files in hist.call has returned.
LoadDone == hist.call.op = "load" /\ hist.call.status = "done"

\* C1: after load_config_files(files, replace=True) has returned, the keys of
\* the table are exactly the names assigned in files: every entry of earlier
\* loads whose name files does not assign is gone.
C1_FullReplacement ==
    (LoadDone /\ hist.call.replace /\ hist.call.files # <<>>)
        => DOMAIN defined_config_dict = NamesOf(hist.call.files)

\* C2: after load_config_files(files, replace=False) has returned, every name
\* the table held before the call and that files does not assign has the
\* record it had, and every name files assigns has the record of files.
C2_MergeOver ==
    (LoadDone /\ ~hist.call.replace)
        => /\ \A n \in DOMAIN hist.dict0 \ NamesOf(hist.call.files) :
                /\ n \in DOMAIN defined_config_dict
                /\ defined_config_dict[n] = hist.dict0[n]
           /\ \A n \in NamesOf(hist.call.files) :
                /\ n \in DOMAIN defined_config_dict
                /\ defined_config_dict[n] = LastRecordOf(hist.call.files, n)
           /\ DOMAIN defined_config_dict = DOMAIN hist.dict0 \cup NamesOf(hist.call.files)

\* C2's case: the merged file overrides one name of the table and leaves
\* another, which it does not assign, as it was.
C2_Witness ==
    /\ LoadDone /\ ~hist.call.replace
    /\ \E n \in DOMAIN hist.dict0 : n \notin NamesOf(hist.call.files)
    /\ \E n \in NamesOf(hist.call.files) :
          n \in DOMAIN hist.dict0 /\ hist.dict0[n] # defined_config_dict[n]

\* C3: load_config_files(<<F>>, replace=True) called twice in a row leaves the
\* table, the dictionary and the list, as the first of the two calls left it.
C3_ReplaceIdempotent ==
    (/\ LoadDone /\ hist.call.replace
     /\ hist.prev.op = "load" /\ hist.prev.status = "done" /\ hist.prev.replace
     /\ hist.prev.files = hist.call.files
     /\ Len(hist.call.files) = 1)
        => /\ defined_config_dict = hist.dict0
           /\ defined_config_list = hist.list0

\* The lines of the file being read, as line.rstrip() leaves them.
StrippedLines == [i \in 1..Len(fs[rd.file]) |-> rstrip(fs[rd.file][i])]

IsAssignment(line) == set_match(line) # <<>> \/ unset_match(line) # <<>>

\* A comment line: it begins with "#" and is no explicit unset.
IsCommentLine(line) == ~IsAssignment(line) /\ comment_match(line)

\* The first line of the run of contiguous comment lines that ends right
\* before line k (k itself when the line before k is no comment line).
RunStart(lines, k) ==
    CHOOSE j \in 1..k :
        /\ \A i \in j..(k - 1) : IsCommentLine(lines[i])
        /\ j = 1 \/ ~IsCommentLine(lines[j - 1])

CommentBefore(lines, k) == join(SubSeq(lines, RunStart(lines, k), k - 1))

\* The assignment lines among the lines read so far, and the m-th of them.
AssignmentsRead == {k \in 1..(rd.pos - 1) : IsAssignment(StrippedLines[k])}

NthAssignment(m) ==
    CHOOSE k \in AssignmentsRead : Cardinality({i \in AssignmentsRead : i <= k}) = m

C10_AllOrNothing ==
    (pc = "read" \/ hist.call.status = "failed")
        => /\ defined_config_dict = hist.open_dict
           /\ defined_config_list = hist.open_list

\* C10's case: reading failed after records of the file had been scanned.
C10_Witness == hist.call.status = "failed" /\ hist.partial > 0

\* The nodes the last print pass printed: examined, and defined or forced.
PrintedAt(i) == shown(walk[i].node, walk[i].force_print)

\* The config lines the last print pass wrote for a node.
ConfigLinesOf(node) ==
    {j \in DOMAIN out : out[j].node = node /\ out[j].kind \in {"config", "orig_config"}}

\* C7 as claimed: the line printed for a node with a matched assignment is
\* the line of the snapshot file, as the file holds it.
C7_EchoesFileLine ==
    \A i \in DOMAIN walk :
        (PrintedAt(i) /\ tree[walk[i].node].config # <<>>)
            => /\ Cardinality(ConfigLinesOf(walk[i].node)) = 1
               /\ \A j \in ConfigLinesOf(walk[i].node) :
                     /\ out[j].kind = "config"
                     /\ out[j].text = tree[walk[i].node].config[1].raw

\* C7 as amended: it is that line without its trailing whitespace.
C7_EchoesStrippedLine ==
    \A i \in DOMAIN walk :
        (PrintedAt(i) /\ tree[walk[i].node].config # <<>>)
            => /\ Cardinality(ConfigLinesOf(walk[i].node)) = 1
               /\ \A j \in ConfigLinesOf(walk[i].node) :
                     /\ out[j].kind = "config"
                     /\ out[j].text = rstrip(tree[walk[i].node].config[1].raw)

\* C7's case: a printed node whose matched line ends in whitespace in its file.
C7_Witness ==
    \E i \in DOMAIN walk :
        /\ PrintedAt(i)
        /\ tree[walk[i].node].config # <<>>
        /\ tree[walk[i].node].config[1].raw # rstrip(tree[walk[i].node].config[1].raw)

\* The strict ancestors of a node, by the parent references of the Nodes.
RECURSIVE AncestorsOf(_, _)
AncestorsOf(ns, n) ==
    IF ns[n].parent = None THEN {}
    ELSE {ns[n].parent} \cup AncestorsOf(ns, ns[n].parent)

UpwardClosed(ns) ==
    \A n \in DOMAIN ns : ns[n].defined => \A a \in AncestorsOf(ns, n) : ns[a].defined

\* A Node that is defined is defined after the step: in the tree under
\* construction, when that tree becomes the finished one, and in the finished
\* tree while no other has replaced it.
StaysDefined ==
    /\ (pc = "build" /\ pc' = "build")
          => \A n \in DOMAIN bnodes : bnodes[n].defined => bnodes'[n].defined
    /\ (pc = "build" /\ pc' # "build")
          => \A n \in DOMAIN bnodes : bnodes[n].defined => tree'[n].defined
    /\ pc # "build"
          => \A n \in DOMAIN tree : tree[n].defined => (n \in DOMAIN tree' /\ tree'[n].defined)

\* C4: after every step of make_node_tree, and in the finished tree, every
\* strict ancestor of a defined node is defined, and no step makes a defined
\* node undefined.
C4_DefinedUpwardClosed ==
    [][UpwardClosed(bnodes') /\ UpwardClosed(tree') /\ StaysDefined]_vars

\* C4's case: f is matched under d, which was matched before it: the walk
\* from f stops at d, the first ancestor already defined.
C4_Witness ==
    /\ pc = "build"
    /\ {"d", "f"} \subseteq DOMAIN bnodes
    /\ bnodes["d"].config # <<>>
    /\ bnodes["f"].config # <<>>
    /\ bnodes["top"].defined

\* A node whose dependency is not positive has no matched assignment, and is
\* defined only if one of its descendants is.
DepGated(ns) ==
    \A n \in DOMAIN ns :
        kconf.dep[n] <= 0
            => /\ ns[n].config = <<>>
               /\ ns[n].defined
                     => \E m \in DOMAIN ns : n \in AncestorsOf(ns, m) /\ ns[m].defined

\* The ancestors of a matched node are defined, whatever their dependency.
AncestorsMarked(ns) ==
    \A n \in DOMAIN ns :
        ns[n].config # <<>> => \A a \in AncestorsOf(ns, n) : ns[a].defined

\* C5: in the tree under construction and in the finished tree, a node whose
\* dependency is not positive is not matched, even with its name in the
\* table, and is defined only through a descendant; the ancestors of a
\* matched node are defined without regard to their own dependency.
C5_DependencyGating ==
    /\ DepGated(bnodes) /\ AncestorsMarked(bnodes)
    /\ DepGated(tree) /\ AncestorsMarked(tree)

\* C5's case: a finished tree with a node whose dependency is "n", whose name
\* the table holds, that is not matched and is defined through a descendant.
C5_Witness ==
    /\ pc = "idle"
    /\ \E n \in DOMAIN tree :
          /\ kconf.dep[n] <= 0
          /\ kconf.tree[n].name \in DOMAIN defined_config_dict
          /\ tree[n].config = <<>>
          /\ tree[n].defined

SubtreeOf(n) == {m \in DOMAIN tree : m = n \/ n \in AncestorsOf(tree, m)}

EventsOf(nodes) == {j \in DOMAIN out : out[j].node \in nodes}

\* What the last print pass wrote for the nodes: the kind and node of each line.
LinesOf(nodes) ==
    LET es == SelectSeq(out, LAMBDA e : e.node \in nodes)
    IN  [j \in DOMAIN es |-> <<es[j].kind, es[j].node>>]

\* C8: in a print pass, a sibling that is not defined and not forced writes
\* nothing, and neither it nor a descendant of it is visited; the siblings
\* after it are still examined, with the same force_print, and what the pass
\* writes for a sibling precedes what it writes for the next; a defined
\* sibling writes something.  So the menu M, defined through its matched
\* child a and with its other child c not defined, is printed as: its prompt,
\* a's prompt and line, nothing for c, its end banner.
C8_UndefinedSkipped ==
    /\ \A i \in DOMAIN walk :
          LET n == walk[i].node IN
          /\ ~PrintedAt(i)
                => /\ EventsOf(SubtreeOf(n)) = {}
                   /\ \A j \in DOMAIN walk : walk[j].node \in SubtreeOf(n) => j = i
          /\ (PrintedAt(i) /\ tree[n].defined) => EventsOf(SubtreeOf(n)) # {}
          /\ tree[n].next # None
                => /\ \E j \in DOMAIN walk :
                         /\ j > i
                         /\ walk[j].node = tree[n].next
                         /\ walk[j].force_print = walk[i].force_print
                   /\ \A e1 \in EventsOf(SubtreeOf(n)), e2 \in EventsOf(SubtreeOf(tree[n].next)) :
                         e1 < e2
    /\ (/\ walk # <<>>
        /\ "M" \in DOMAIN tree
        /\ tree["a"].config # <<>>
        /\ ~tree["c"].defined
        /\ ~fmt.print_help /\ ~fmt.print_location)
          => LinesOf({"M", "a", "c"}) =
                << <<"prompt", "M">>, <<"newline", "M">>,
                   <<"prompt", "a">>, <<"config", "a">>, <<"newline", "a">>,
                   <<"menu_end", "M">> >>

\* C8's case: the tree was printed with a matched and c not defined under M.
C8_Witness ==
    /\ walk # <<>>
    /\ "M" \in DOMAIN tree
    /\ tree["M"].defined
    /\ tree["a"].config # <<>>
    /\ ~tree["c"].defined
    /\ ~fmt.print_help /\ ~fmt.print_location

ChildrenOf(n) == {m \in DOMAIN tree : tree[m].parent = n}

\* C9: when a print pass prints a choice, each child of the choice is printed,
\* forced, defined or not: a child with a matched assignment shows its line,
\* a symbol child without one the synthesized "CONFIG_<name> is not set".
C9_ChoiceBranchesShown ==
    \A i \in DOMAIN walk :
        (PrintedAt(i) /\ tree[walk[i].node].is_choice)
            => \A c \in ChildrenOf(walk[i].node) :
                  /\ \E j \in DOMAIN walk : walk[j].node = c /\ walk[j].force_print
                  /\ tree[c].config # <<>>
                        => \E j \in DOMAIN out :
                              /\ out[j].node = c /\ out[j].kind = "config"
                              /\ out[j].text = tree[c].config[1].line
                  /\ (tree[c].config = <<>> /\ tree[c].is_symbol)
                        => \E j \in DOMAIN out :
                              /\ out[j].node = c /\ out[j].kind = "orig_config"
                              /\ out[j].text = <<"CONFIG_">> \o kconf.tree[c].name
                                                  \o <<" ", "is not set">>

\* C9's case: the choice ch is printed, its branch d is matched and its
\* branch e is not defined.
C9_Witness ==
    /\ \E i \in DOMAIN walk : walk[i].node = "ch" /\ PrintedAt(i)
    /\ tree["d"].config # <<>>
    /\ ~tree["e"].defined

(***************************************************************************)
(* The end banner.                                                         *)
(***************************************************************************)
\* The end banners the last print pass wrote for a node.
MenuEndsOf(node) == {j \in DOMAIN out : out[j].node = node /\ out[j].kind = "menu_end"}

\* The banner of the node is written once, for the node's level and prompt,
\* after everything else the pass wrote for the node and its descendants.
ClosedByBanner(node) ==
    /\ Cardinality(MenuEndsOf(node)) = 1
    /\ \A j \in MenuEndsOf(node) :
          /\ out[j].level = tree[node].level
          /\ out[j].text = <<tree[node].prompt>>
          /\ \A e \in EventsOf(SubtreeOf(node)) : e <= j

\* C11 as claimed: every node a print pass prints and that has a prompt,
\* whatever its category, is closed by its end banner, written after the
\* output of its children.
C11_BannerForEveryPrompt ==
    \A i \in DOMAIN walk :
        (PrintedAt(i) /\ tree[walk[i].node].prompt # None)
            => ClosedByBanner(walk[i].node)

\* C11 as amended: a printed node that has a prompt is closed by its end
\* banner, after the output of its children and also when the pass wrote
\* nothing for them, exactly when it is a menu node (a menu, a choice, a
\* menuconfig symbol); any other node gets no end banner.
C11_BannerForMenuNodes ==
    /\ \A i \in DOMAIN walk :
          LET n == walk[i].node IN
          (PrintedAt(i) /\ tree[n].prompt # None /\ tree[n].is_menu)
              => ClosedByBanner(n)
    /\ \A j \in DOMAIN out :
          out[j].kind = "menu_end"
              => /\ tree[out[j].node].is_menu
                 /\ tree[out[j].node].prompt # None
                 /\ \E i \in DOMAIN walk : walk[i].node = out[j].node /\ PrintedAt(i)

\* C11's case: the menuconfig symbol mc is printed and closed by its banner
\* while nothing is written for its child g, and the symbol a, which has a
\* prompt and is no menu node, is printed too.
C11_Witness ==
    /\ \E i \in DOMAIN walk : walk[i].node = "mc" /\ PrintedAt(i)
    /\ EventsOf(SubtreeOf("g")) = {}
    /\ MenuEndsOf("mc") # {}
    /\ \E i \in DOMAIN walk : walk[i].node = "a" /\ PrintedAt(i)

(***************************************************************************)
(* force_print from a node to its children.                                *)
(***************************************************************************)
\* The force_print values the last print pass examined a node with.
ForceOf(node) == {walk[j].force_print : j \in {k \in DOMAIN walk : walk[k].node = node}}

\* C12 as claimed: the children of a printed node that is no choice are
\* examined with the force_print the node was printed with, the children of
\* a choice with TRUE.
C12_ChildrenKeepForce ==
    \A i \in DOMAIN walk :
        PrintedAt(i)
            => \A c \in ChildrenOf(walk[i].node) :
                  ForceOf(c) = {IF tree[walk[i].node].is_choice
                                THEN TRUE ELSE walk[i].force_print}

\* C12 as amended: the children of a printed node are examined with TRUE
\* when the node is a choice and with FALSE when it is not, whatever
\* force_print the node itself was printed with.
C12_ChildrenForcedByChoiceOnly ==
    \A i \in DOMAIN walk :
        PrintedAt(i)
            => \A c \in ChildrenOf(walk[i].node) :
                  ForceOf(c) = {tree[walk[i].node].is_choice}

\* C12's case: the branch d of the choice is printed forced, and its child f
\* is examined.
C12_Witness ==
    /\ \E i \in DOMAIN walk :
          walk[i].node = "d" /\ walk[i].force_print /\ PrintedAt(i)
    /\ ForceOf("f") # {}

====
